---- MODULE Spec2Model ----
(***************************************************************************)
(* Sprite-sheet animation engine of rust_game: the animation library, the  *)
(* per-entity AnimationState with its two commands, the advance step       *)
(* (animate_sprite_system), and the two input systems that issue commands  *)
(* (handle_cat_clicks_system, toggle_debug_system).                        *)
(*                                                                         *)
(* Time is counted in units of 0.05 s, the greatest common divisor of the  *)
(* durations the sources use (0.05, 0.1, 0.15, 0.2, 0.5, 2.0), so every    *)
(* duration and every delta of the model is an exact integer. The rounding *)
(* of f32 seconds to Duration nanoseconds (0.15 s, 0.2 s) is not modelled.  *)
(***************************************************************************)
EXTENDS Integers, Sequences, FiniteSets, TLC

VARIABLES
    state,          \* the cat's AnimationState component
    atlas_index,    \* TextureAtlas.index of the cat: the displayed sprite-sheet index
    counter,        \* ClickCounter.0
    debug_enabled,  \* DebugMode.enabled
    cmd,            \* history: the last command issued on the AnimationState
    since,          \* history: time ticked since that command, saturating at its hold
    prior_left,     \* history: time the transition that command overwrote would still
                    \* have to run (0: it would have fired by now; -1: it overwrote none)
    fires,          \* history: transitions fired since that command (saturating at 2)
    firings,        \* history: frame-timer firings in the current cycle of the animation
    last,           \* history: the last step taken, with its inputs and what it did
    trace,          \* history: the deltas of the frames run by ScenarioTick, in order
    pair,           \* two more entities of the query, each with its AnimationState
                    \* and its TextureAtlas.index
    pair_last,      \* history: the last step taken on the pair, with its inputs
    counter_changed,\* Res<ClickCounter>::is_changed() as the background system sees
                    \* it: the counter was written since that system last ran
    ran,            \* the systems of the Update schedule that have run in the
                    \* current frame, for the actions that keep frames
    replacements    \* history: times the background was given a new image

vars ==
    <<state, atlas_index, counter, debug_enabled, cmd, since, prior_left, fires,
      firings, last, trace, pair, pair_last, counter_changed, ran, replacements>>

-----------------------------------------------------------------------------
(* Bounds of the model *)

\* holds of 0, 0.25 s, ..., MaxHold * 0.25 s are offered to
\* play_animation_then_return, next to the click's hold
MaxHold == 1
\* the click counter is a u32; the game offers clicks on the cat up to this many
MaxClicks == 2
\* the scenario of frames from the default state runs up to this many frames
MaxTrace == 4
\* the frames of clicks and background changes offer clicks on the cat up to this
\* many
MaxFrameClicks == 10

-----------------------------------------------------------------------------
(* Values *)

None == [tag |-> "None"]

Min(a, b) == IF a <= b THEN a ELSE b

\* (a..b).collect(): the half-open range a, a+1, ..., b-1 as a Vec (1-based Seq here)
Range(a, b) == [i \in 1..(b - a) |-> a + i - 1]

Animation(n, f, d) == [name |-> n, frames |-> f, frame_duration |-> d]

\* the catalog with a pancake animation of no frames
animations_EmptyPancake ==
    [n \in {"idle", "walk", "pancake", "sleep", "play", "run", "jump",
            "box_play", "dance", "damage"} |->
        CASE n = "idle"     -> Animation(n, Range(0, 6), 10)
          [] n = "walk"     -> Animation(n, Range(12, 15), 4)
          [] n = "pancake"  -> Animation(n, <<>>, 10)
          [] n = "sleep"    -> Animation(n, Range(36, 39), 10)
          [] n = "play"     -> Animation(n, Range(48, 57), 3)
          [] n = "run"      -> Animation(n, Range(60, 65), 1)
          [] n = "jump"     -> Animation(n, Range(72, 80), 2)
          [] n = "box_play" -> Animation(n, Range(84, 105) \o Range(108, 120), 4)
          [] n = "dance"    -> Animation(n, Range(132, 136), 4)
          [] n = "damage"   -> Animation(n, Range(204, 212) \o Range(211, 212), 4)]

\* AnimationLibrary::new(): the hard-coded catalog, durations in units of 0.05 s
animations ==
    [n \in {"idle", "walk", "pancake", "sleep", "play", "run", "jump",
            "box_play", "dance", "damage"} |->
        CASE n = "idle"     -> Animation(n, Range(0, 6), 10)
          [] n = "walk"     -> Animation(n, Range(12, 15), 4)
          [] n = "pancake"  -> Animation(n, <<24>>, 10)
          [] n = "sleep"    -> Animation(n, Range(36, 39), 10)
          [] n = "play"     -> Animation(n, Range(48, 57), 3)
          [] n = "run"      -> Animation(n, Range(60, 65), 1)
          [] n = "jump"     -> Animation(n, Range(72, 80), 2)
          [] n = "box_play" -> Animation(n, Range(84, 105) \o Range(108, 120), 4)
          [] n = "dance"    -> Animation(n, Range(132, 136), 4)
          [] n = "damage"   -> Animation(n, Range(204, 212) \o Range(211, 212), 4)]

\* AnimationLibrary::new() of main.rs, the single-file build of the game: its
\* hard-coded catalog, durations in units of 0.05 s
main_animations ==
    [n \in {"idle", "walk", "sleep", "groom", "play", "jump", "cute",
            "box_play"} |->
        CASE n = "idle"     -> Animation(n, Range(0, 6), 10)
          [] n = "walk"     -> Animation(n, Range(8, 11), 4)
          [] n = "sleep"    -> Animation(n, <<16, 17, 18, 19>>, 20)
          [] n = "groom"    -> Animation(n, Range(24, 34), 3)
          [] n = "play"     -> Animation(n, Range(32, 38), 2)
          [] n = "jump"     -> Animation(n, Range(40, 48), 2)
          [] n = "cute"     -> Animation(n, Range(48, 56), 3)
          [] n = "box_play" -> Animation(n, Range(56, 64), 4)]

\* AnimationLibrary::get(name).is_some()
Resolves(name) == name \in DOMAIN animations

\* AnimationLibrary::get(name): the definition, or None
get(name) == IF Resolves(name) THEN animations[name] ELSE None

-----------------------------------------------------------------------------
(* bevy Timer, as the sources use it: from_seconds, tick, just_finished *)

\* Timer::from_seconds(duration, mode)
TimerFromSeconds(duration, mode) ==
    [elapsed |-> 0, duration |-> duration, mode |-> mode, finished |-> FALSE]

\* a repeating timer that takes one period off when it fires, whatever the excess
TimerTick_SubtractsOnce(t, delta) ==
    IF t.mode # "Repeating" /\ t.finished
    THEN [timer |-> t, times_finished_this_tick |-> 0]
    ELSE LET e == t.elapsed + delta IN
         IF e >= t.duration
         THEN IF t.mode = "Repeating"
              THEN [timer |-> [t EXCEPT !.elapsed = e - t.duration,
                                        !.finished = TRUE],
                    times_finished_this_tick |-> 1]
              ELSE [timer |-> [t EXCEPT !.elapsed = t.duration, !.finished = TRUE],
                    times_finished_this_tick |-> 1]
         ELSE [timer |-> [t EXCEPT !.elapsed = e, !.finished = FALSE],
               times_finished_this_tick |-> 0]

\* Timer::tick(delta): the timer afterwards and times_finished_this_tick.
\* A finished one-shot timer no longer advances; a repeating timer keeps the
\* remainder of the elapsed time modulo its period; a one-shot timer clamps.
\* (A repeating timer of period 0 reports u32::MAX firings; only its sign is
\* read, and the largest integer TLC handles stands for it.)
TimerTick(t, delta) ==
    IF t.mode # "Repeating" /\ t.finished
    THEN [timer |-> t, times_finished_this_tick |-> 0]
    ELSE LET e == t.elapsed + delta IN
         IF e >= t.duration
         THEN IF t.mode = "Repeating"
              THEN [timer |-> [t EXCEPT !.elapsed = IF t.duration = 0 THEN 0
                                                    ELSE e % t.duration,
                                        !.finished = TRUE],
                    times_finished_this_tick |-> IF t.duration = 0 THEN 2147483647
                                                 ELSE e \div t.duration]
              ELSE [timer |-> [t EXCEPT !.elapsed = t.duration, !.finished = TRUE],
                    times_finished_this_tick |-> 1]
         ELSE [timer |-> [t EXCEPT !.elapsed = e, !.finished = FALSE],
               times_finished_this_tick |-> 0]

\* Timer::just_finished() of a tick's result
JustFinished(r) == r.times_finished_this_tick > 0

-----------------------------------------------------------------------------
(* AnimationState *)

\* the default state with walk's period on its frame timer
AnimationStateDefault_WalkPeriod ==
    [current_animation |-> "idle",
     current_frame     |-> 0,
     timer             |-> TimerFromSeconds(4, "Repeating"),
     next_animation    |-> None]

\* impl Default for AnimationState
AnimationStateDefault ==
    [current_animation |-> "idle",
     current_frame     |-> 0,
     timer             |-> TimerFromSeconds(10, "Repeating"),
     next_animation    |-> None]

\* play_animation with the line `self.next_animation = None` left out
play_animation_KeepsPending(s, animation_name) ==
    [s EXCEPT !.current_animation = animation_name,
              !.current_frame = 0,
              !.timer = IF Resolves(animation_name)
                        THEN TimerFromSeconds(animations[animation_name].frame_duration,
                                              "Repeating")
                        ELSE @]

\* play_animation without the restart of the frame timer
play_animation_StaleTimer(s, animation_name) ==
    [s EXCEPT !.current_animation = animation_name,
              !.current_frame = 0,
              !.next_animation = None]

\* play_animation restarting the frame timer also when the name does not resolve
\* (with the period it had)
play_animation_RestartsAnyway(s, animation_name) ==
    [s EXCEPT !.current_animation = animation_name,
              !.current_frame = 0,
              !.next_animation = None,
              !.timer = IF Resolves(animation_name)
                        THEN TimerFromSeconds(animations[animation_name].frame_duration,
                                              "Repeating")
                        ELSE TimerFromSeconds(@.duration, "Repeating")]

\* AnimationState::play_animation
play_animation(s, animation_name) ==
    [s EXCEPT !.current_animation = animation_name,
              !.current_frame = 0,
              !.next_animation = None,
              !.timer = IF Resolves(animation_name)
                        THEN TimerFromSeconds(animations[animation_name].frame_duration,
                                              "Repeating")
                        ELSE @]

\* play_animation_then_return arming the one-shot timer with the animation's
\* frame_duration instead of `duration`
play_animation_then_return_FrameDuration(s, animation_name, return_to, duration) ==
    [s EXCEPT !.current_animation = animation_name,
              !.current_frame = 0,
              !.next_animation =
                  [name  |-> return_to,
                   timer |-> TimerFromSeconds(
                                 IF Resolves(animation_name)
                                 THEN animations[animation_name].frame_duration
                                 ELSE duration, "Once")],
              !.timer = IF Resolves(animation_name)
                        THEN TimerFromSeconds(animations[animation_name].frame_duration,
                                              "Repeating")
                        ELSE @]

\* play_animation_then_return keeping a transition that is already pending
play_animation_then_return_KeepsFirst(s, animation_name, return_to, duration) ==
    [s EXCEPT !.current_animation = animation_name,
              !.current_frame = 0,
              !.next_animation = IF @ = None
                                 THEN [name  |-> return_to,
                                       timer |-> TimerFromSeconds(duration, "Once")]
                                 ELSE @,
              !.timer = IF Resolves(animation_name)
                        THEN TimerFromSeconds(animations[animation_name].frame_duration,
                                              "Repeating")
                        ELSE @]

\* play_animation_then_return with the line `self.current_frame = 0` left out
play_animation_then_return_KeepsFrame(s, animation_name, return_to, duration) ==
    [s EXCEPT !.current_animation = animation_name,
              !.next_animation = [name  |-> return_to,
                                  timer |-> TimerFromSeconds(duration, "Once")],
              !.timer = IF Resolves(animation_name)
                        THEN TimerFromSeconds(animations[animation_name].frame_duration,
                                              "Repeating")
                        ELSE @]

\* AnimationState::play_animation_then_return
play_animation_then_return(s, animation_name, return_to, duration) ==
    [s EXCEPT !.current_animation = animation_name,
              !.current_frame = 0,
              !.next_animation = [name  |-> return_to,
                                  timer |-> TimerFromSeconds(duration, "Once")],
              !.timer = IF Resolves(animation_name)
                        THEN TimerFromSeconds(animations[animation_name].frame_duration,
                                              "Repeating")
                        ELSE @]

\* the transition branch with `state.next_animation = None` left out
HandleTransition_KeepsPending(s, delta) ==
    IF s.next_animation = None
    THEN [state |-> s, fired |-> FALSE]
    ELSE LET r == TimerTick(s.next_animation.timer, delta) IN
         IF JustFinished(r)
         THEN LET target == s.next_animation.name IN
              [state |-> [s EXCEPT !.current_animation = target,
                                   !.current_frame = 0,
                                   !.next_animation.timer = r.timer,
                                   !.timer = IF Resolves(target)
                                             THEN TimerFromSeconds(
                                                      animations[target].frame_duration,
                                                      "Repeating")
                                             ELSE @],
               fired |-> TRUE]
         ELSE [state |-> [s EXCEPT !.next_animation.timer = r.timer],
               fired |-> FALSE]

\* the transition branch with `state.current_frame = 0` left out
HandleTransition_KeepsFrame(s, delta) ==
    IF s.next_animation = None
    THEN [state |-> s, fired |-> FALSE]
    ELSE LET r == TimerTick(s.next_animation.timer, delta) IN
         IF JustFinished(r)
         THEN LET target == s.next_animation.name IN
              [state |-> [s EXCEPT !.current_animation = target,
                                   !.next_animation = None,
                                   !.timer = IF Resolves(target)
                                             THEN TimerFromSeconds(
                                                      animations[target].frame_duration,
                                                      "Repeating")
                                             ELSE @],
               fired |-> TRUE]
         ELSE [state |-> [s EXCEPT !.next_animation.timer = r.timer],
               fired |-> FALSE]

\* the transition branch restarting the one-shot timer instead of clearing the
\* pending transition
HandleTransition_Rearms(s, delta) ==
    IF s.next_animation = None
    THEN [state |-> s, fired |-> FALSE]
    ELSE LET r == TimerTick(s.next_animation.timer, delta) IN
         IF JustFinished(r)
         THEN LET target == s.next_animation.name IN
              [state |-> [s EXCEPT !.current_animation = target,
                                   !.current_frame = 0,
                                   !.next_animation.timer =
                                       TimerFromSeconds(r.timer.duration, "Once"),
                                   !.timer = IF Resolves(target)
                                             THEN TimerFromSeconds(
                                                      animations[target].frame_duration,
                                                      "Repeating")
                                             ELSE @],
               fired |-> TRUE]
         ELSE [state |-> [s EXCEPT !.next_animation.timer = r.timer],
               fired |-> FALSE]

\* the transition branch without the restart of the frame timer
HandleTransition_StaleTimer(s, delta) ==
    IF s.next_animation = None
    THEN [state |-> s, fired |-> FALSE]
    ELSE LET r == TimerTick(s.next_animation.timer, delta) IN
         IF JustFinished(r)
         THEN LET target == s.next_animation.name IN
              [state |-> [s EXCEPT !.current_animation = target,
                                   !.current_frame = 0,
                                   !.next_animation = None],
               fired |-> TRUE]
         ELSE [state |-> [s EXCEPT !.next_animation.timer = r.timer],
               fired |-> FALSE]

\* the transition block dropping a transition whose target the library lacks
HandleTransition_DropsAbsent(s, delta) ==
    IF s.next_animation = None
    THEN [state |-> s, fired |-> FALSE]
    ELSE LET r == TimerTick(s.next_animation.timer, delta) IN
         IF JustFinished(r)
         THEN LET target == s.next_animation.name IN
              IF Resolves(target)
              THEN [state |-> [s EXCEPT !.current_animation = target,
                                        !.current_frame = 0,
                                        !.next_animation = None,
                                        !.timer = TimerFromSeconds(
                                                      animations[target].frame_duration,
                                                      "Repeating")],
                    fired |-> TRUE]
              ELSE [state |-> [s EXCEPT !.next_animation = None], fired |-> TRUE]
         ELSE [state |-> [s EXCEPT !.next_animation.timer = r.timer],
               fired |-> FALSE]

\* the transition block ticking a copy of the countdown: the time of a tick that
\* does not fire is not kept
HandleTransition_ForgetsCountdown(s, delta) ==
    IF s.next_animation = None
    THEN [state |-> s, fired |-> FALSE]
    ELSE LET r == TimerTick(s.next_animation.timer, delta) IN
         IF JustFinished(r)
         THEN LET target == s.next_animation.name IN
              [state |-> [s EXCEPT !.current_animation = target,
                                   !.current_frame = 0,
                                   !.next_animation = None,
                                   !.timer = IF Resolves(target)
                                             THEN TimerFromSeconds(
                                                      animations[target].frame_duration,
                                                      "Repeating")
                                             ELSE @],
               fired |-> TRUE]
         ELSE [state |-> s, fired |-> FALSE]

\* animate_sprite_system, first half of the loop body: the transition timer.
\* Gives the state afterwards and whether the transition fired.
HandleTransition(s, delta) ==
    IF s.next_animation = None
    THEN [state |-> s, fired |-> FALSE]
    ELSE LET r == TimerTick(s.next_animation.timer, delta) IN
         IF JustFinished(r)
         THEN LET target == s.next_animation.name IN
              [state |-> [s EXCEPT !.current_animation = target,
                                   !.current_frame = 0,
                                   !.next_animation = None,
                                   !.timer = IF Resolves(target)
                                             THEN TimerFromSeconds(
                                                      animations[target].frame_duration,
                                                      "Repeating")
                                             ELSE @],
               fired |-> TRUE]
         ELSE [state |-> [s EXCEPT !.next_animation.timer = r.timer],
               fired |-> FALSE]

\* the frame branch without the modulo
HandleFrame_NoWrap(s, index, delta) ==
    IF ~Resolves(s.current_animation)
    THEN [state |-> s, atlas_index |-> index, advanced |-> FALSE]
    ELSE LET animation == animations[s.current_animation]
             r == TimerTick(s.timer, delta)
             frame == IF JustFinished(r)
                      THEN s.current_frame + 1
                      ELSE s.current_frame
         IN  [state |-> [s EXCEPT !.timer = r.timer, !.current_frame = frame],
              atlas_index |-> IF frame < Len(animation.frames)
                              THEN animation.frames[frame + 1]
                              ELSE index,
              advanced |-> JustFinished(r)]

\* the frame branch catching up: one frame for every period the delta covers
\* (times_finished_this_tick instead of just_finished)
HandleFrame_CatchUp(s, index, delta) ==
    IF ~Resolves(s.current_animation)
    THEN [state |-> s, atlas_index |-> index, advanced |-> FALSE]
    ELSE LET animation == animations[s.current_animation]
             r == TimerTick(s.timer, delta)
             frame == (s.current_frame + r.times_finished_this_tick)
                          % Len(animation.frames)
         IN  [state |-> [s EXCEPT !.timer = r.timer, !.current_frame = frame],
              atlas_index |-> IF frame < Len(animation.frames)
                              THEN animation.frames[frame + 1]
                              ELSE index,
              advanced |-> JustFinished(r)]

\* the frame branch wrapping one position late (modulo len + 1)
HandleFrame_WrapsLate(s, index, delta) ==
    IF ~Resolves(s.current_animation)
    THEN [state |-> s, atlas_index |-> index, advanced |-> FALSE]
    ELSE LET animation == animations[s.current_animation]
             r == TimerTick(s.timer, delta)
             frame == IF JustFinished(r)
                      THEN (s.current_frame + 1) % (Len(animation.frames) + 1)
                      ELSE s.current_frame
         IN  [state |-> [s EXCEPT !.timer = r.timer, !.current_frame = frame],
              atlas_index |-> IF frame < Len(animation.frames)
                              THEN animation.frames[frame + 1]
                              ELSE index,
              advanced |-> JustFinished(r)]

\* the frame branch falling back to sprite 0 when the name does not resolve
HandleFrame_UnresolvedShowsZero(s, index, delta) ==
    IF ~Resolves(s.current_animation)
    THEN [state |-> s, atlas_index |-> 0, advanced |-> FALSE]
    ELSE LET animation == animations[s.current_animation]
             r == TimerTick(s.timer, delta)
             frame == IF JustFinished(r)
                      THEN (s.current_frame + 1) % Len(animation.frames)
                      ELSE s.current_frame
         IN  [state |-> [s EXCEPT !.timer = r.timer, !.current_frame = frame],
              atlas_index |-> IF frame < Len(animation.frames)
                              THEN animation.frames[frame + 1]
                              ELSE index,
              advanced |-> JustFinished(r)]

\* the frame branch writing the atlas index before it advances the frame
HandleFrame_IndexFirst(s, index, delta) ==
    IF ~Resolves(s.current_animation)
    THEN [state |-> s, atlas_index |-> index, advanced |-> FALSE]
    ELSE LET animation == animations[s.current_animation]
             r == TimerTick(s.timer, delta)
             frame == IF JustFinished(r)
                      THEN (s.current_frame + 1) % Len(animation.frames)
                      ELSE s.current_frame
         IN  [state |-> [s EXCEPT !.timer = r.timer, !.current_frame = frame],
              atlas_index |-> IF s.current_frame < Len(animation.frames)
                              THEN animation.frames[s.current_frame + 1]
                              ELSE index,
              advanced |-> JustFinished(r)]

\* the frame branch with a timer that forgets the time of a tick that did not fire
HandleFrame_NoAccumulation(s, index, delta) ==
    IF ~Resolves(s.current_animation)
    THEN [state |-> s, atlas_index |-> index, advanced |-> FALSE]
    ELSE LET animation == animations[s.current_animation]
             r == TimerTick(s.timer, delta)
             frame == IF JustFinished(r)
                      THEN (s.current_frame + 1) % Len(animation.frames)
                      ELSE s.current_frame
         IN  [state |-> [s EXCEPT !.timer = [r.timer EXCEPT !.elapsed = 0],
                                  !.current_frame = frame],
              atlas_index |-> IF frame < Len(animation.frames)
                              THEN animation.frames[frame + 1]
                              ELSE index,
              advanced |-> JustFinished(r)]

\* the frame branch ticking the frame timer before the lookup
HandleFrame_TicksUnresolved(s, index, delta) ==
    LET r == TimerTick(s.timer, delta) IN
    IF ~Resolves(s.current_animation)
    THEN [state |-> [s EXCEPT !.timer = r.timer], atlas_index |-> index,
          advanced |-> FALSE]
    ELSE LET animation == animations[s.current_animation]
             frame == IF JustFinished(r)
                      THEN (s.current_frame + 1) % Len(animation.frames)
                      ELSE s.current_frame
         IN  [state |-> [s EXCEPT !.timer = r.timer, !.current_frame = frame],
              atlas_index |-> IF frame < Len(animation.frames)
                              THEN animation.frames[frame + 1]
                              ELSE index,
              advanced |-> JustFinished(r)]

\* animate_sprite_system, second half of the loop body: the frame timer and the
\* texture atlas index. Gives the state, the index and whether the frame timer fired.
HandleFrame(s, index, delta) ==
    IF ~Resolves(s.current_animation)
    THEN [state |-> s, atlas_index |-> index, advanced |-> FALSE]
    ELSE LET animation == animations[s.current_animation]
             r == TimerTick(s.timer, delta)
             frame == IF JustFinished(r)
                      THEN (s.current_frame + 1) % Len(animation.frames)
                      ELSE s.current_frame
         IN  [state |-> [s EXCEPT !.timer = r.timer, !.current_frame = frame],
              atlas_index |-> IF frame < Len(animation.frames)
                              THEN animation.frames[frame + 1]
                              ELSE index,
              advanced |-> JustFinished(r)]

\* the loop body with its two halves in the other order: frame timer first
animate_sprite_system_FrameFirst(s, index, delta) ==
    LET f == HandleFrame(s, index, delta)
        t == HandleTransition(f.state, delta)
    IN  [state |-> t.state, atlas_index |-> f.atlas_index,
         fired |-> t.fired, advanced |-> f.advanced]

\* the loop body looking the current animation up first and skipping the entity,
\* transition included, when the library lacks it
animate_sprite_system_LookupFirst(s, index, delta) ==
    IF ~Resolves(s.current_animation)
    THEN [state |-> s, atlas_index |-> index, fired |-> FALSE, advanced |-> FALSE]
    ELSE LET t == HandleTransition(s, delta)
             f == HandleFrame(t.state, index, delta)
         IN  [state |-> f.state, atlas_index |-> f.atlas_index,
              fired |-> t.fired, advanced |-> f.advanced]

\* animate_sprite_system: one pass of the loop body over the entity
animate_sprite_system(s, index, delta) ==
    LET t == HandleTransition(s, delta)
        f == HandleFrame(t.state, index, delta)
    IN  [state |-> f.state, atlas_index |-> f.atlas_index,
         fired |-> t.fired, advanced |-> f.advanced]

\* the loop with one clock for the whole query: the first entity visited consumes
\* the frame's delta and the later ones see none
animate_sprite_query_SharedDelta(q, order, delta) ==
    IF order = <<>> THEN q
    ELSE LET e == Head(order)
             r == animate_sprite_system(q[e].state, q[e].atlas_index, delta)
             rest == [i \in 1..(Len(order) - 1) |-> order[i + 1]]
             later == [o \in DOMAIN q |->
                          IF o \in {rest[i] : i \in DOMAIN rest}
                          THEN LET x == animate_sprite_system(q[o].state,
                                                              q[o].atlas_index, 0)
                               IN  [state |-> x.state, atlas_index |-> x.atlas_index]
                          ELSE q[o]]
         IN  [later EXCEPT ![e] = [state |-> r.state, atlas_index |-> r.atlas_index]]

\* animate_sprite_system over a query of several entities: `for (mut atlas, mut
\* state) in &mut query` visits the entities in `order` and runs the loop body on
\* each with the same time.delta()
RECURSIVE animate_sprite_query(_, _, _)
animate_sprite_query(q, order, delta) ==
    IF order = <<>> THEN q
    ELSE LET e == Head(order)
             r == animate_sprite_system(q[e].state, q[e].atlas_index, delta)
         IN  animate_sprite_query(
                 [q EXCEPT ![e] = [state |-> r.state, atlas_index |-> r.atlas_index]],
                 Tail(order), delta)

-----------------------------------------------------------------------------
(* Inputs *)

\* the hold of the click's transition: 2.0 s
ClickHold == 40

\* names the commands are given: library keys of 6, 8 and 1 frames, and "cute",
\* which the click system plays and the library does not hold
Names == {"idle", "jump", "pancake", "cute"}

\* targets the transitions return to
ReturnNames == {"idle", "pancake", "cute"}

\* time.delta() of a frame: 0 s, 0.25 s, 0.5 s, 1.0 s, 2.0 s
Deltas == {0, 5, 10, 20, ClickHold}

\* time.delta() of a frame of the scenario from the default state: 0.2 s, 0.3 s,
\* 0.5 s, none longer than idle's period
ScenarioDeltas == {4, 6, 10}

\* hold durations given to play_animation_then_return
Holds == {5 * k : k \in 0..MaxHold} \cup {ClickHold}

\* the shortcut table of toggle_debug_system, in its order
shortcuts ==
    <<"idle", "walk", "pancake", "sleep", "play", "run", "jump", "box_play",
      "dance", "damage">>

\* the entities of the pair
Entities == {1, 2}

\* the orders in which the query may visit them
Orders == {<<1, 2>>, <<2, 1>>}

\* an entity as setup_game_entities spawns the cat: first frame, default state
Spawned == [state |-> AnimationStateDefault, atlas_index |-> 0]

\* names, hold and deltas offered to the pair
PairNames == {"jump", "cute"}

PairHolds == {5}

PairDeltas == {0, 5, 10}

\* a frame of the Update schedule in which the click hits the cat, with
\* handle_cat_clicks_system run before animate_sprite_system: the AnimationState at
\* the end of the frame
FrameClickFirst(s, index, delta) ==
    animate_sprite_system(play_animation_then_return(s, "cute", "idle", ClickHold),
                          index, delta).state

\* the same frame with animate_sprite_system run before handle_cat_clicks_system
FrameTickFirst(s, index, delta) ==
    play_animation_then_return(animate_sprite_system(s, index, delta).state,
                               "cute", "idle", ClickHold)

-----------------------------------------------------------------------------
(* History *)

\* no command yet
NoCommand == [op |-> "none", name |-> "idle", return_to |-> "idle", hold |-> 0]

Step(op, dt, fired, advanced) ==
    [op |-> op, dt |-> dt, fired |-> fired, advanced |-> advanced]

\* the time the pending transition of s still has to run; -1 when none is pending
Remaining(s) ==
    IF s.next_animation = None THEN -1
    ELSE s.next_animation.timer.duration - s.next_animation.timer.elapsed

\* the history after a command on state s
Commanded(s, op, name, return_to, hold) ==
    /\ cmd' = [op |-> op, name |-> name, return_to |-> return_to, hold |-> hold]
    /\ since' = 0
    /\ prior_left' = Remaining(s)
    /\ fires' = 0
    /\ firings' = 0
    /\ last' = Step(op, 0, FALSE, FALSE)

PairStep(op, entity, name, return_to, hold, dt, order) ==
    [op |-> op, entity |-> entity, name |-> name, return_to |-> return_to,
     hold |-> hold, dt |-> dt, order |-> order]

\* the variables of the background system, which the steps on the AnimationState
\* leave alone
background == <<counter_changed, ran, replacements>>

\* the variables of the single cat, which the steps on the pair leave alone
catvars ==
    <<state, atlas_index, counter, debug_enabled, cmd, since, prior_left, fires,
      firings, last, trace, counter_changed, ran, replacements>>

-----------------------------------------------------------------------------
(* Actions *)

Init ==
    /\ state = AnimationStateDefault
    /\ atlas_index = 0
    /\ counter = 0
    /\ debug_enabled = FALSE
    /\ cmd = NoCommand
    /\ since = 0
    /\ prior_left = -1
    /\ fires = 0
    /\ firings = 0
    /\ last = Step("init", 0, FALSE, FALSE)
    /\ trace = <<>>
    /\ pair = [e \in Entities |-> Spawned]
    /\ pair_last = PairStep("init", 1, "idle", "idle", 0, 0, <<>>)
    /\ counter_changed = TRUE
    /\ ran = {}
    /\ replacements = 0

\* a caller issues play_animation(name)
PlayNow ==
    \E name \in Names :
        /\ state' = play_animation(state, name)
        /\ Commanded(state, "play_now", name, name, 0)
        /\ UNCHANGED <<atlas_index, counter, debug_enabled, trace, pair, pair_last,
                     background>>

\* a caller issues play_animation_then_return(name, return_to, hold)
PlayThenReturn ==
    \E name \in Names, return_to \in ReturnNames, hold \in Holds :
        /\ state' = play_animation_then_return(state, name, return_to, hold)
        /\ Commanded(state, "play_then_return", name, return_to, hold)
        /\ UNCHANGED <<atlas_index, counter, debug_enabled, trace, pair, pair_last,
                     background>>

\* one frame of animate_sprite_system with time.delta() = dt
TickBy(dt) ==
    LET r == animate_sprite_system(state, atlas_index, dt)
        n == IF Resolves(r.state.current_animation)
             THEN Len(animations[r.state.current_animation].frames)
             ELSE 1
        base == IF r.fired THEN 0 ELSE firings
    IN  /\ state' = r.state
        /\ atlas_index' = r.atlas_index
        /\ since' = Min(since + dt, cmd.hold)
        /\ prior_left' = IF prior_left > dt THEN prior_left - dt ELSE Min(prior_left, 0)
        /\ fires' = IF r.fired THEN Min(fires + 1, 2) ELSE fires
        /\ firings' = IF r.advanced
                      THEN (IF base + 1 >= n THEN 0 ELSE base + 1)
                      ELSE base
        /\ last' = Step("tick", dt, r.fired, r.advanced)
        /\ UNCHANGED <<counter, debug_enabled, cmd>>

Tick == \E dt \in Deltas : TickBy(dt) /\ UNCHANGED <<trace, pair, pair_last, background>>

\* one frame of animate_sprite_system in the scenario, its delta recorded
ScenarioTick ==
    \E dt \in ScenarioDeltas :
        /\ Len(trace) < MaxTrace
        /\ TickBy(dt)
        /\ trace' = Append(trace, dt)
        /\ UNCHANGED <<pair, pair_last, background>>

\* handle_cat_clicks_system counting every left click, on the cat or not
Click_CountsMisses ==
    \E just_pressed \in BOOLEAN, hit \in BOOLEAN :
        IF just_pressed /\ hit
        THEN /\ counter < MaxClicks
             /\ counter' = counter + 1
             /\ state' = play_animation_then_return(state, "cute", "idle", ClickHold)
             /\ Commanded(state, "play_then_return", "cute", "idle", ClickHold)
             /\ counter_changed' = TRUE
             /\ UNCHANGED <<atlas_index, debug_enabled, trace, pair, pair_last,
                            ran, replacements>>
        ELSE /\ counter < MaxClicks
             /\ counter' = IF just_pressed THEN counter + 1 ELSE counter
             /\ counter_changed' = (just_pressed \/ counter_changed)
             /\ last' = Step("click_miss", 0, FALSE, FALSE)
             /\ UNCHANGED <<state, atlas_index, debug_enabled, cmd, since,
                            prior_left, fires, firings, trace, pair, pair_last,
                            ran, replacements>>

\* one run of handle_cat_clicks_system: the left button was just pressed or not,
\* and the cursor is over the cat or not; clicks on the cat are offered while the
\* counter is below `limit`. Writing the counter through ResMut marks it changed.
ClickUpTo(limit) ==
    \E just_pressed \in BOOLEAN, hit \in BOOLEAN :
        IF just_pressed /\ hit
        THEN /\ counter < limit
             /\ counter' = counter + 1
             /\ counter_changed' = TRUE
             /\ state' = play_animation_then_return(state, "cute", "idle", ClickHold)
             /\ Commanded(state, "play_then_return", "cute", "idle", ClickHold)
             /\ UNCHANGED <<atlas_index, debug_enabled, trace, pair, pair_last,
                            replacements>>
        ELSE /\ last' = Step("click_miss", 0, FALSE, FALSE)
             /\ UNCHANGED <<state, atlas_index, counter, debug_enabled, cmd, since,
                            prior_left, fires, firings, trace,
                            pair, pair_last, counter_changed, replacements>>

\* one frame of handle_cat_clicks_system
Click == ClickUpTo(MaxClicks) /\ UNCHANGED ran

\* one frame of toggle_debug_system: D was just pressed or not, and `digit` is the
\* first entry of the shortcut table whose key was just pressed (0: none)
ToggleDebug ==
    \E keyD \in BOOLEAN, digit \in 0..Len(shortcuts) :
        LET enabled == IF keyD THEN ~debug_enabled ELSE debug_enabled IN
        /\ debug_enabled' = enabled
        /\ IF enabled /\ digit > 0
           THEN /\ state' = play_animation(state, shortcuts[digit])
                /\ Commanded(state, "play_now", shortcuts[digit], shortcuts[digit], 0)
           ELSE /\ last' = Step("debug", 0, FALSE, FALSE)
                /\ UNCHANGED <<state, cmd, since, prior_left, fires, firings>>
        /\ UNCHANGED <<atlas_index, counter, trace, pair, pair_last, background>>

\* a caller issues play_animation(name) on one entity of the pair
PairPlayNow ==
    \E e \in Entities, name \in PairNames :
        /\ pair' = [pair EXCEPT ![e].state = play_animation(pair[e].state, name)]
        /\ pair_last' = PairStep("play_now", e, name, name, 0, 0, <<>>)
        /\ UNCHANGED catvars

\* a caller issues play_animation_then_return(name, "idle", hold) on one entity
PairPlayThenReturn ==
    \E e \in Entities, name \in PairNames, hold \in PairHolds :
        /\ pair' = [pair EXCEPT ![e].state =
                       play_animation_then_return(pair[e].state, name, "idle", hold)]
        /\ pair_last' = PairStep("play_then_return", e, name, "idle", hold, 0, <<>>)
        /\ UNCHANGED catvars

\* one frame of animate_sprite_system over the pair, in either order
PairTick ==
    \E dt \in PairDeltas, order \in Orders :
        /\ pair' = animate_sprite_query(pair, order, dt)
        /\ pair_last' = PairStep("tick", order[1], "idle", "idle", 0, dt, order)
        /\ UNCHANGED catvars

\* the AnimationState under its commands and the advance step
Next == PlayNow \/ PlayThenReturn \/ Tick

Spec == Init /\ [][Next]_vars

\* the game: the three systems that touch the cat's AnimationState
NextGame == Tick \/ Click \/ ToggleDebug

SpecGame == Init /\ [][NextGame]_vars

\* the clicks alone: the cat under handle_cat_clicks_system and the advance step
NextClicks == Tick \/ Click

SpecClicks == Init /\ [][NextClicks]_vars

\* the debug shortcuts alone: every library animation is played, none is armed
NextShortcuts == Tick \/ ToggleDebug

SpecShortcuts == Init /\ [][NextShortcuts]_vars

\* frames of the advance step alone, from the default state
NextScenario == ScenarioTick

SpecScenario == Init /\ [][NextScenario]_vars

\* the two systems of GamePlugin that use the click counter; the Update schedule
\* runs each once per frame and sets no order between them
Systems == {"click", "background"}

\* the systems that have run in the frame once `system` has: none when the frame
\* is over
Ran(system) == IF ran \cup {system} = Systems THEN {} ELSE ran \cup {system}

\* handle_cat_clicks_system takes its turn in the frame
FrameClick ==
    /\ "click" \notin ran
    /\ ClickUpTo(MaxFrameClicks)
    /\ ran' = Ran("click")

\* change_background_on_click_system takes its turn in the frame: a new image,
\* drawn at random from BackgroundConfig and possibly the one shown, is inserted
\* when the counter is a positive multiple of 5 and is_changed()
FrameBackground ==
    /\ "background" \notin ran
    /\ replacements' = IF counter > 0 /\ counter % 5 = 0 /\ counter_changed
                       THEN replacements + 1
                       ELSE replacements
    /\ counter_changed' = FALSE
    /\ ran' = Ran("background")
    /\ last' = Step("background", 0, FALSE, FALSE)
    /\ UNCHANGED <<state, atlas_index, counter, debug_enabled, cmd, since,
                   prior_left, fires, firings, trace, pair, pair_last>>

\* frames of the click and the background systems, in either order
NextFrames == FrameClick \/ FrameBackground

SpecFrames == Init /\ [][NextFrames]_vars

\* the same frames had the schedule chained the two systems, click first
FrameBackgroundAfterClick == "click" \in ran /\ FrameBackground

NextFramesChained == FrameClick \/ FrameBackgroundAfterClick

SpecFramesChained == Init /\ [][NextFramesChained]_vars

\* a frame of animate_sprite_system in which time has passed
PositiveTick == \E dt \in Deltas \ {0} : TickBy(dt) /\ UNCHANGED <<trace, pair, pair_last, background>>

\* play_animation_then_return as the only command ever issued
OnlyPlayThenReturn == cmd = NoCommand /\ PlayThenReturn

\* one play_animation_then_return and frames before and after it, of which those
\* with dt > 0 keep occurring
NextLive == OnlyPlayThenReturn \/ Tick

SpecLive == Init /\ [][NextLive]_vars /\ WF_vars(PositiveTick)

\* two entities under the commands and the advance step
NextPair == PairPlayNow \/ PairPlayThenReturn \/ PairTick

SpecPair == Init /\ [][NextPair]_vars

-----------------------------------------------------------------------------
(* Properties of the transition *)

Armed == cmd.op = "play_then_return"

\* C1: after play_then_return(A, B, T) with T > 0 and no further command, at the
\* end of the tick at which the time ticked since the command reaches T (in any
\* number of ticks), and ever after, current_animation = B and no transition is
\* pending.
C1_FiresWhenHoldElapsed ==
    (Armed /\ cmd.hold > 0 /\ since >= cmd.hold)
        => /\ state.current_animation = cmd.return_to
           /\ state.next_animation = None

\* the click's hold of 2.0 s was reached in ticks of 0.25 s, and the cat is back
C1_Witness ==
    /\ Armed /\ cmd.hold = ClickHold /\ since = ClickHold
    /\ cmd.name # cmd.return_to
    /\ last.op = "tick" /\ last.dt = 5 /\ last.fired
    /\ state.current_animation = cmd.return_to

\* C2 as stated: at the end of the advance step in which the transition fires,
\* current_frame = 0, for every tick size.
C2_FrameZeroWhenFired ==
    (last.op = "tick" /\ last.fired) => state.current_frame = 0

\* C2 as amended: at the end of the advance step in which the transition fires,
\* current_frame = 0 when the target does not resolve or dt is smaller than the
\* target's frame_duration; otherwise the restarted frame timer fires in the same
\* step and current_frame = 1 mod frames.len().
C2_FrameAfterFiring ==
    (last.op = "tick" /\ last.fired)
        => LET target == state.current_animation IN
           state.current_frame =
               IF Resolves(target) /\ last.dt >= animations[target].frame_duration
               THEN 1 % Len(animations[target].frames)
               ELSE 0

\* play_then_return("cute", "idle", 2.0) and one tick of 2.0 s: back on idle, frame 1
C2_Witness ==
    /\ cmd = [op |-> "play_then_return", name |-> "cute", return_to |-> "idle",
              hold |-> ClickHold]
    /\ last = Step("tick", ClickHold, TRUE, TRUE)
    /\ state.current_animation = "idle"
    /\ state.current_frame = 1

\* C3: after play_then_return(A, B, T) with T > 0 and no further command, as long
\* as the time ticked since the command is < T, current_animation = A and the
\* transition to B is pending.
C3_HoldsUntilElapsed ==
    (Armed /\ cmd.hold > 0 /\ since < cmd.hold)
        => /\ state.current_animation = cmd.name
           /\ state.next_animation # None
           /\ state.next_animation.name = cmd.return_to

\* several ticks into a hold, one tick short of it
C3_Witness ==
    /\ Armed /\ cmd.name # cmd.return_to
    /\ since = cmd.hold - 5 /\ since >= 10
    /\ last.op = "tick" /\ last.dt = 5
    /\ state.current_animation = cmd.name

\* C4: a pending transition fires once per arming: the step that fires it clears
\* pending_transition, no second firing follows, and current_animation stays at
\* the target under every later tick until a new command.
C4_FiresOnce ==
    /\ fires <= 1
    /\ (last.fired => state.next_animation = None)
    /\ (fires = 1 => /\ Armed
                     /\ state.next_animation = None
                     /\ state.current_animation = cmd.return_to)

\* a tick of positive length after the firing, which fired nothing
C4_Witness ==
    /\ fires = 1 /\ cmd.name # cmd.return_to /\ cmd.hold > 0
    /\ last.op = "tick" /\ last.dt > 0 /\ ~last.fired
    /\ state.current_animation = cmd.return_to

\* C5: when play_then_return(A2, B2, T2) overwrites a pending transition, only the
\* second is honoured: until T2 has elapsed since the second call the state stays
\* on A2 with the transition to B2 counting from the second call; the one
\* automatic switch is to B2, at T2; nothing happens when the first hold runs out.
C5_OnlySecondHonoured ==
    (Armed /\ prior_left >= 0)
        => /\ fires <= 1
           /\ (fires = 0 => /\ state.current_animation = cmd.name
                            /\ state.next_animation # None
                            /\ state.next_animation.name = cmd.return_to
                            /\ Remaining(state) = cmd.hold - since)
           /\ (fires = 1 => /\ state.current_animation = cmd.return_to
                            /\ state.next_animation = None
                            /\ since = cmd.hold)
           /\ (cmd.hold > 0 /\ since = cmd.hold => fires = 1)

\* the overwritten transition would have fired by now; the second is still pending
C5_Witness ==
    /\ Armed /\ prior_left = 0 /\ fires = 0
    /\ since > 0 /\ since < cmd.hold
    /\ last.op = "tick"
    /\ state.current_animation = cmd.name /\ cmd.name # cmd.return_to

\* C6: play_now issued while a transition is pending cancels it: from then on no
\* transition is pending and no tick moves current_animation away from the name.
C6_PlayNowCancels ==
    (cmd.op = "play_now" /\ prior_left >= 0)
        => /\ state.next_animation = None
           /\ state.current_animation = cmd.name
           /\ fires = 0

\* the cancelled transition would have fired by now
C6_Witness ==
    /\ cmd.op = "play_now" /\ prior_left = 0
    /\ last.op = "tick" /\ last.dt > 0
    /\ state.current_animation = cmd.name

-----------------------------------------------------------------------------
(* Properties of the name and of the frame index *)

\* C7: in the game (ticks, clicks, debug shortcuts), current_animation is a key
\* of the animation library whenever the advance step runs.
C7_CurrentAnimationInLibrary ==
    last.op = "tick" => Resolves(state.current_animation)

\* C8: whenever current_animation resolves in the library,
\* 0 <= current_frame < frames.len() of that animation.
C8_FrameInRange ==
    Resolves(state.current_animation)
        => state.current_frame \in
               0..(Len(animations[state.current_animation].frames) - 1)

\* the frame timer fired on the last frame of jump and wrapped to frame 0
C8_Witness ==
    /\ state.current_animation = "jump" /\ state.current_frame = 0
    /\ last.op = "tick" /\ last.advanced /\ ~last.fired
    /\ cmd.name = "jump"

\* C9: one advance step moves current_frame by at most one position, whatever dt:
\* from its value before the step (0 when the transition fired in the step) it
\* stays or goes to the next position, cyclically; on jump (frame duration 0.1 s)
\* one tick of 1.0 s advances it by exactly 1.
C9_SingleAdvancePerTick ==
    [][\A dt \in Deltas :
          TickBy(dt) =>
              LET base == IF last'.fired THEN 0 ELSE state.current_frame
                  name == state'.current_animation
              IN  IF Resolves(name)
                  THEN LET n == Len(animations[name].frames) IN
                       /\ state'.current_frame \in {base, (base + 1) % n}
                       /\ (last'.advanced => state'.current_frame = (base + 1) % n)
                       /\ (dt = 20 /\ name = "jump"
                               => state'.current_frame = (base + 1) % n)
                  ELSE state'.current_frame = base]_vars

\* one tick of 1.0 s on jump, started by a command: frame 1
C9_Witness ==
    /\ state.current_animation = "jump" /\ cmd.name = "jump"
    /\ last = Step("tick", 20, FALSE, TRUE)
    /\ firings = 1
    /\ state.current_frame = 1

\* C10: for every animation of the library, counting the firings of the frame
\* timer from current_frame = 0: current_frame is 0 again after exactly
\* frames.len() firings and after no smaller positive number of them.
C10_FrameCycle ==
    Resolves(state.current_animation)
        => (state.current_frame = 0 <=> firings = 0)

\* box_play, 33 frames: the firing that completes the cycle
C10_Witness ==
    /\ state.current_animation = "box_play"
    /\ last.op = "tick" /\ last.advanced
    /\ firings = 0 /\ state.current_frame = 0

-----------------------------------------------------------------------------
(* Properties of the commands *)

\* C11: play_now(name) with a name that resolves sets current_animation = name,
\* current_frame = 0, clears pending_transition, and replaces the frame timer by
\* a fresh repeating timer (elapsed 0) whose period is that animation's
\* frame_duration.
C11_PlayNowEffects ==
    (last.op = "play_now" /\ Resolves(cmd.name))
        => state = [current_animation |-> cmd.name,
                    current_frame     |-> 0,
                    timer             |-> [elapsed  |-> 0,
                                           duration |-> animations[cmd.name].frame_duration,
                                           mode     |-> "Repeating",
                                           finished |-> FALSE],
                    next_animation    |-> None]

\* play_now("jump") issued while a transition was pending
C11_Witness ==
    /\ last.op = "play_now" /\ cmd.name = "jump" /\ prior_left > 0
    /\ state.current_animation = "jump"
    /\ state.timer.duration = 2

\* C12: for every starting state, name, return_to and hold, the state after
\* play_then_return(name, return_to, hold) equals the state after play_now(name)
\* in current_animation, current_frame and frame timer, and its
\* pending_transition is (return_to, fresh one-shot countdown of hold).
C12_ThenReturnIsPlayNowPlusPending ==
    [][last'.op = "play_then_return"
          => LET now == play_animation(state, cmd'.name) IN
             /\ state'.current_animation = now.current_animation
             /\ state'.current_frame = now.current_frame
             /\ state'.timer = now.timer
             /\ state'.next_animation =
                    [name  |-> cmd'.return_to,
                     timer |-> [elapsed  |-> 0,
                                duration |-> cmd'.hold,
                                mode     |-> "Once",
                                finished |-> FALSE]]]_vars

\* play_then_return("jump", _, 0.25) issued over a pending transition
C12_Witness ==
    /\ last.op = "play_then_return" /\ cmd.name = "jump" /\ cmd.hold = 5
    /\ prior_left > 5
    /\ state.current_animation = "jump" /\ state.current_frame = 0
    /\ Remaining(state) = 5

\* C13: play_now or play_then_return with a name absent from the library still
\* records the name in current_animation and sets current_frame = 0, and leaves
\* the frame timer (its period and its elapsed time) exactly as it was.
C13_UnknownNameKeepsTimer ==
    [][(last'.op \in {"play_now", "play_then_return"} /\ ~Resolves(cmd'.name))
          => /\ state'.current_animation = cmd'.name
             /\ state'.current_frame = 0
             /\ state'.timer = state.timer]_vars

\* "cute" commanded over jump's frame timer, half a period in
C13_Witness ==
    /\ last.op \in {"play_now", "play_then_return"} /\ cmd.name = "cute"
    /\ state.current_animation = "cute" /\ state.current_frame = 0
    /\ state.timer.duration = 2 /\ state.timer.elapsed = 1

-----------------------------------------------------------------------------
(* Properties of the advance step *)

\* C14 as stated: an advance step run while current_animation is absent from the
\* library leaves the displayed sprite-sheet index and current_frame unchanged
\* (stated here for transitions armed with a positive hold only, which is enough
\* to refute it).
C14_UnresolvedStepChangesNothing ==
    [][\A dt \in Deltas :
          (TickBy(dt) /\ ~Resolves(state.current_animation) /\ (Armed => cmd.hold > 0))
              => /\ atlas_index' = atlas_index
                 /\ state'.current_frame = state.current_frame]_vars

\* C14 as amended: an advance step run while current_animation is absent from the
\* library leaves the displayed sprite-sheet index and current_frame unchanged,
\* unless a pending transition to a name present in the library fires in that step.
C14_UnresolvedStepUnlessReturned ==
    [][\A dt \in Deltas :
          (/\ TickBy(dt)
           /\ ~Resolves(state.current_animation)
           /\ ~(last'.fired /\ Resolves(state'.current_animation)))
              => /\ atlas_index' = atlas_index
                 /\ state'.current_frame = state.current_frame]_vars

\* a tick of 1.0 s on "cute": the sprite is still jump's fourth
C14_Witness ==
    /\ state.current_animation = "cute" /\ state.current_frame = 0
    /\ last = Step("tick", 20, FALSE, FALSE)
    /\ atlas_index = 75

\* C15: in every state reachable from the default state by commands and ticks,
\* whenever current_animation resolves in the library the frame timer is a
\* repeating timer whose period is that animation's frame_duration.
C15_TimerPeriodMatches ==
    Resolves(state.current_animation)
        => /\ state.timer.duration = animations[state.current_animation].frame_duration
           /\ state.timer.mode = "Repeating"

\* a transition from jump (0.1 s) fired and left idle with a period of 0.5 s
C15_Witness ==
    /\ last.op = "tick" /\ last.fired
    /\ cmd.name = "jump" /\ cmd.return_to = "idle"
    /\ state.current_animation = "idle"
    /\ state.timer.duration = 10

\* the sprite-sheet indices of a library animation
FrameSet(name) ==
    {animations[name].frames[i] : i \in 1..Len(animations[name].frames)}

\* C16: within one advance step the pending transition is resolved before the
\* frame timer: at the end of the step in which a transition to a resolvable
\* target fires, the displayed index is an element of the target's frames, not
\* of the animation that was playing before.
C16_TransitionBeforeFrame ==
    (last.op = "tick" /\ last.fired /\ Resolves(state.current_animation))
        => /\ atlas_index \in FrameSet(state.current_animation)
           /\ (Resolves(cmd.name) /\ cmd.name # state.current_animation)
                  => atlas_index \notin FrameSet(cmd.name)

\* jump was playing and displayed; the step that fired shows a frame of idle
C16_Witness ==
    /\ last.op = "tick" /\ last.fired /\ last.dt = 5
    /\ cmd.name = "jump" /\ cmd.return_to = "idle" /\ cmd.hold = ClickHold
    /\ state.current_animation = "idle"
    /\ atlas_index = 0

\* C17: at the end of every advance step in which current_animation resolves,
\* the displayed sprite-sheet index equals frames[current_frame] of the current
\* animation.
C17_IndexIsCurrentFrame ==
    (last.op = "tick" /\ Resolves(state.current_animation))
        => LET frames == animations[state.current_animation].frames IN
           /\ state.current_frame < Len(frames)
           /\ atlas_index = frames[state.current_frame + 1]

\* the frame timer moved jump to its fourth frame, sprite 75
C17_Witness ==
    /\ last.op = "tick" /\ last.advanced
    /\ state.current_animation = "jump" /\ state.current_frame = 3
    /\ atlas_index = 75

\* the fields an advance step with a zero delta is said to leave alone
SameAnimationState ==
    /\ state'.current_animation = state.current_animation
    /\ state'.current_frame = state.current_frame
    /\ state'.timer.elapsed = state.timer.elapsed
    /\ state'.next_animation = state.next_animation

\* C18: an advance step with dt = 0 makes no timer progress and no frame change:
\* current_animation, current_frame, the frame timer's elapsed time and the
\* pending transition are the same after the step as before it.
C18_ZeroDeltaChangesNothing ==
    [][(last'.op = "tick" /\ last'.dt = 0) => SameAnimationState]_vars

\* the same statement for the steps that start with no pending transition of a
\* zero hold: these are the steps a zero delta leaves alone
C18_ZeroDeltaPositiveHold ==
    [][(/\ last'.op = "tick" /\ last'.dt = 0
        /\ (state.next_animation # None
                => state.next_animation.timer.duration > 0))
            => SameAnimationState]_vars

-----------------------------------------------------------------------------
(* Properties of the frame timer across frames *)

RECURSIVE Sum(_)
Sum(seq) == IF seq = <<>> THEN 0 ELSE seq[1] + Sum(Tail(seq))

\* C19: the frame timer accumulates elapsed time across ticks and fires on the tick
\* at which the time accumulated since its last firing reaches the period: from
\* the default state (idle, period 0.5 s) the ticks 0.5, 0.2, 0.3 give
\* current_frame 1, 1, 2 and displayed index 1, 1, 2; and after any frames none
\* longer than the period, the timer holds the time run modulo the period and
\* current_frame counts the periods completed.
C19_TimerAccumulates ==
    LET idle == animations["idle"]
        run  == Sum(trace)
    IN  /\ trace = <<10>> => (state.current_frame = 1 /\ atlas_index = 1)
        /\ trace = <<10, 4>> => (state.current_frame = 1 /\ atlas_index = 1)
        /\ trace = <<10, 4, 6>> => (state.current_frame = 2 /\ atlas_index = 2)
        /\ trace # <<>> =>
            /\ state.current_animation = "idle"
            /\ state.timer.elapsed = run % idle.frame_duration
            /\ state.current_frame
                   = (run \div idle.frame_duration) % Len(idle.frames)
            /\ atlas_index = idle.frames[state.current_frame + 1]

\* the three frames of the scenario have run: the third fired on 0.2 s + 0.3 s
C19_Witness ==
    /\ trace = <<10, 4, 6>>
    /\ last.op = "tick" /\ last.advanced
    /\ state.current_frame = 2 /\ atlas_index = 2
    /\ state.timer.elapsed = 0

-----------------------------------------------------------------------------
(* Properties of the library *)

WellFormed(library) ==
    \A n \in DOMAIN library :
        /\ Len(library[n].frames) > 0
        /\ library[n].frame_duration > 0

\* C20: every animation registered by library construction has a non-empty frames
\* sequence and frame_duration > 0, so the modulo by frames.len() in the advance
\* step never divides by zero for a resolved animation.
C20_LibraryWellFormed ==
    /\ WellFormed(animations)
    /\ WellFormed(main_animations)
    /\ Resolves(state.current_animation)
           => Len(animations[state.current_animation].frames) # 0

\* the frame timer fired on pancake, the shortest animation: (0 + 1) % 1
C20_Witness ==
    /\ last.op = "tick" /\ last.advanced
    /\ state.current_animation = "pancake"
    /\ state.current_frame = 0 /\ atlas_index = 24

-----------------------------------------------------------------------------
(* Properties of the commands' durations *)

\* C21: a command given a non-positive duration is rejected: play_then_return with
\* a hold <= 0 leaves the AnimationState unchanged instead of arming a transition.
C21_NonPositiveHoldRejected ==
    [][(last'.op = "play_then_return" /\ cmd'.hold <= 0) => state' = state]_vars

-----------------------------------------------------------------------------
(* Properties of several entities *)

\* C22: AnimationState instances are independent: with two entities, a command
\* applied to one leaves the other's state unchanged, and the state an advance
\* step gives an entity depends only on that entity's prior state, dt and the
\* library, not on the other entity or on the order in which entities are visited.
C22_EntitiesIndependent ==
    [][/\ pair_last'.op \in {"play_now", "play_then_return"}
           => \A o \in Entities \ {pair_last'.entity} : pair'[o] = pair[o]
       /\ pair_last'.op = "tick"
           => \A e \in Entities :
                  LET own == animate_sprite_system(pair[e].state,
                                                   pair[e].atlas_index,
                                                   pair_last'.dt)
                  IN  /\ pair'[e].state = own.state
                      /\ pair'[e].atlas_index = own.atlas_index]_vars

\* entity 2 was visited first, and entity 1, on jump, advanced while entity 2, on
\* idle, did not
C22_Witness ==
    /\ pair_last.op = "tick" /\ pair_last.dt = 5 /\ pair_last.order = <<2, 1>>
    /\ pair[1].state.current_animation = "jump" /\ pair[1].state.current_frame = 1
    /\ pair[2].state.current_animation = "idle" /\ pair[2].state.current_frame = 0
    /\ pair[2].state.timer.elapsed = 5

-----------------------------------------------------------------------------
(* Properties of construction *)

-----------------------------------------------------------------------------
(* Properties of the click counter *)

\* C24: the click counter starts at 0 and after any sequence of frames equals the
\* number of left-clicks that hit the cat: each such click increases it by exactly
\* 1 and arms play_then_return("cute", "idle", 2.0); a click that misses the cat,
\* and every tick, leaves the counter and the AnimationState commands untouched.
C24_CounterCountsHits ==
    /\ counter = 0
    /\ [][/\ (last'.op = "play_then_return")
              => /\ counter' = counter + 1
                 /\ cmd' = [op |-> "play_then_return", name |-> "cute",
                            return_to |-> "idle", hold |-> ClickHold]
                 /\ state' = play_animation_then_return(state, "cute", "idle",
                                                        ClickHold)
                 /\ state'.next_animation =
                        [name |-> "idle", timer |-> TimerFromSeconds(ClickHold, "Once")]
          /\ (last'.op = "click_miss")
              => (counter' = counter /\ cmd' = cmd /\ state' = state)
          /\ (last'.op = "tick")
              => (counter' = counter /\ cmd' = cmd)
          /\ (counter' # counter)
              => (last'.op = "play_then_return" /\ counter' = counter + 1)]_vars

\* two clicks hit the cat, the second before the first one's hold had run out, and
\* a frame has passed since
C24_Witness ==
    /\ counter = 2
    /\ last.op = "tick" /\ last.dt = 5
    /\ cmd = [op |-> "play_then_return", name |-> "cute", return_to |-> "idle",
              hold |-> ClickHold]
    /\ state.current_animation = "cute"
    /\ state.next_animation # None

-----------------------------------------------------------------------------
(* Properties of names the library lacks *)

\* C25: when a pending transition fires and its target name is absent from the
\* library, current_animation is still set to the target, current_frame is set to
\* 0 and the pending transition is cleared, while the frame timer and the
\* displayed index are left unchanged in that step.
C25_AbsentTargetFires ==
    [][(/\ last'.op = "tick" /\ last'.fired
        /\ state.next_animation # None
        /\ ~Resolves(state.next_animation.name))
            => /\ state'.current_animation = state.next_animation.name
               /\ state'.current_frame = 0
               /\ state'.next_animation = None
               /\ state'.timer = state.timer
               /\ atlas_index' = atlas_index]_vars

\* the cat left jump, mid-cycle and mid-period, for "cute", which the library lacks
C25_Witness ==
    /\ last.op = "tick" /\ last.fired
    /\ cmd.name = "jump" /\ cmd.return_to = "cute"
    /\ state.current_animation = "cute" /\ state.current_frame = 0
    /\ state.next_animation = None
    /\ atlas_index = 74
    /\ state.timer.duration = 2 /\ state.timer.elapsed = 1

\* C26: an unresolved current animation does not block a pending transition:
\* while current_animation is absent from the library the transition countdown
\* still advances on every tick, and when it elapses the state switches to the
\* target, with the target's period on the frame timer when the library has it
\* (so play_then_return("cute", "idle", 2.0) is back on idle after 2.0 s of ticks).
C26_AbsentDoesNotBlock ==
    (Armed /\ ~Resolves(cmd.name) /\ cmd.hold > 0)
        => IF since < cmd.hold
           THEN /\ state.current_animation = cmd.name
                /\ state.next_animation # None
                /\ state.next_animation.name = cmd.return_to
                /\ state.next_animation.timer.elapsed = since
           ELSE /\ state.current_animation = cmd.return_to
                /\ state.next_animation = None
                /\ Resolves(cmd.return_to)
                       => /\ state.timer.mode = "Repeating"
                          /\ state.timer.duration
                                 = animations[cmd.return_to].frame_duration

\* the click's command: 2.0 s after "cute" in ticks of 0.25 s, the cat is on idle
C26_Witness ==
    /\ cmd = [op |-> "play_then_return", name |-> "cute", return_to |-> "idle",
              hold |-> ClickHold]
    /\ since = ClickHold
    /\ last.op = "tick" /\ last.dt = 5 /\ last.fired
    /\ state.current_animation = "idle" /\ state.next_animation = None
    /\ state.timer.duration = 10

\* C28: an advance step run with an unresolved current_animation and no pending
\* transition is a no-op on the whole AnimationState: the frame timer is not
\* ticked, so time spent on an unresolved animation is never credited to it; the
\* displayed index is left alone as well.
C28_UnresolvedIdleStepIsNoOp ==
    [][(/\ last'.op = "tick"
        /\ ~Resolves(state.current_animation)
        /\ state.next_animation = None)
            => (state' = state /\ atlas_index' = atlas_index)]_vars

\* a frame of 0.25 s on "cute" has left the timer that jump had run to 0.05 s of
\* its 0.1 s where it was
C28_Witness ==
    /\ last.op = "tick" /\ last.dt = 5
    /\ cmd.op = "play_now" /\ cmd.name = "cute"
    /\ state.current_animation = "cute" /\ state.next_animation = None
    /\ state.timer.duration = 2 /\ state.timer.elapsed = 1
    /\ atlas_index = 74

\* C29: after every advance step on a resolved animation with positive period, the
\* frame timer's elapsed time is >= 0 and strictly less than its period: on a
\* firing tick the excess is kept modulo the period and carried to later ticks,
\* never producing a second frame advance in the same step.
C29_ElapsedBelowPeriod ==
    [][(/\ last'.op = "tick"
        /\ Resolves(state'.current_animation)
        /\ state'.timer.duration > 0)
            => LET period == state'.timer.duration
                   n == Len(animations[state'.current_animation].frames)
                   \* the timer and the frame the frame block started from
                   from == IF last'.fired THEN 0 ELSE state.timer.elapsed
                   frame == IF last'.fired THEN 0 ELSE state.current_frame
               IN  /\ state'.timer.elapsed >= 0
                   /\ state'.timer.elapsed < period
                   /\ state'.timer.elapsed = (from + last'.dt) % period
                   /\ state'.current_frame =
                          IF from + last'.dt >= period
                          THEN (frame + 1) % n
                          ELSE frame]_vars

\* a frame of 1.0 s on jump, period 0.1 s, that started 0.05 s into the period:
\* one frame advance, and 0.05 s carried
C29_Witness ==
    /\ last.op = "tick" /\ last.dt = 20 /\ last.advanced /\ ~last.fired
    /\ state.current_animation = "jump"
    /\ state.timer.duration = 2 /\ state.timer.elapsed = 1
    /\ state.current_frame = 2

-----------------------------------------------------------------------------
(* Liveness of the transition *)

\* C27: after play_then_return(A, B, T), if no further command is issued and ticks
\* with dt > 0 keep occurring, the pending transition eventually fires: eventually
\* no transition is pending and current_animation = B.
C27_EventuallyFires ==
    (Armed /\ state.next_animation # None)
        ~> (state.next_animation = None /\ state.current_animation = cmd.return_to)

\* the transition of a 2.0 s hold from jump to pancake has fired
C27_Witness ==
    /\ Armed /\ cmd.name = "jump" /\ cmd.return_to = "pancake"
    /\ cmd.hold = ClickHold
    /\ last.op = "tick" /\ last.fired
    /\ state.next_animation = None /\ state.current_animation = "pancake"

-----------------------------------------------------------------------------
(* Properties of the order of the systems within a frame *)

\* C30: in a frame in which both the click command and the advance step run on the
\* same entity, whose relative order the scheduler does not fix, current_animation
\* at the end of the frame is the same for both orders, for every dt.
C30_OrderIndependent ==
    \A dt \in Deltas :
        FrameClickFirst(state, atlas_index, dt).current_animation
            = FrameTickFirst(state, atlas_index, dt).current_animation

\* the same for the frames shorter than the click's hold: there the two orders
\* agree on current_animation
C30_OrderIndependentBelowHold ==
    \A dt \in {d \in Deltas : d < ClickHold} :
        FrameClickFirst(state, atlas_index, dt).current_animation
            = FrameTickFirst(state, atlas_index, dt).current_animation

-----------------------------------------------------------------------------
(* Properties of the background *)

\* C31: the background is replaced exactly once for each click that brings the
\* click counter to a positive multiple of 5, and in no other frame: never at
\* counter 0, never for a changed counter that is not a multiple of 5, and not
\* again in later frames while the counter stays at the same multiple of 5. So the
\* replacements never exceed the multiples of 5 the counter has reached, and equal
\* them once the background system has run after the last click.
C31_ReplacedOncePerMultiple ==
    /\ replacements <= counter \div 5
    /\ ~counter_changed => replacements = counter \div 5

\* the part of it about the frames without a replacement: no replacement at
\* counter 0, none for a counter that is not a multiple of 5, none twice for one
\* multiple
C31_NoOtherReplacement ==
    [][/\ replacements <= counter \div 5
       /\ replacements' # replacements
              => /\ last'.op = "background"
                 /\ counter > 0 /\ counter % 5 = 0 /\ counter_changed
                 /\ replacements' = replacements + 1]_vars

====
